---------------------------- MODULE Spec2Model ----------------------------
(***************************************************************************)
(* A model of the MuJoCo adapter of tbp.monty                              *)
(* (src/tbp/monty/simulators/mujoco): the MuJoCoSimulator facade, the      *)
(* MuJoCoActuator mixin, the agents and the sensor configurations.         *)
(*                                                                         *)
(* The physics engine itself is outside the repository.  The model keeps   *)
(* what the adapter reads and writes of it: the scene description (MjSpec),*)
(* the compiled model (name -> id tables, camera offsets), the data        *)
(* (per-body pose arrays), the renderer (its frame size and its            *)
(* depth-rendering switch) and the contact verdicts of a step, which are   *)
(* a nondeterministic input.  A physics step leaves the pose arrays the    *)
(* adapter wrote as they are.                                              *)
(*                                                                         *)
(* Numbers.  Floating point values are modelled exactly: a real is a pair  *)
(* <<a, b>> standing for (a + b*sqrt(2))/2, which is closed under the      *)
(* quaternion products of rotations by multiples of 90 degrees.  Lengths   *)
(* are in units of 0.1 m.                                                  *)
(***************************************************************************)
EXTENDS Integers, Sequences, FiniteSets, TLC

\* ---------------------------------------------------------------- bounds
\* Operations per behaviour.
MaxOps == 3
\* Largest height and width of the images given to process_observation.
MaxSide == 2

\* ------------------------------------------------------- program constants
\* Frame size of mujoco.Renderer(self.model): no height or width is passed.
RendererHeight == 240
RendererWidth == 320
\* _handle_object_collision_avoidance
max_attempts == 100
\* step_size = 0.1 m, in length units
step_size == 1
\* np.ones(...) * 255
Opaque == 255

\* ------------------------------------------------------------ Python None
None == <<>>
Some(v) == <<v>>
IsNone(o) == o = <<>>
The(o) == o[1]

\* ----------------------------------------------------------------- reals
\* <<a, b>> is (a + b*sqrt(2))/2.
R(n) == <<2 * n, 0>>
Zero == <<0, 0>>
One == <<2, 0>>
Sqrt2Half == <<0, 1>>
RNeg(x) == <<0 - x[1], 0 - x[2]>>
RAdd(x, y) == <<x[1] + y[1], x[2] + y[2]>>
RSub(x, y) == <<x[1] - y[1], x[2] - y[2]>>
\* The product, in quarters: (a + b*sqrt(2))(c + d*sqrt(2))/4.
RMul4(x, y) == <<x[1] * y[1] + 2 * x[2] * y[2], x[1] * y[2] + x[2] * y[1]>>
\* From quarters back to halves.
RHalve(p) == <<p[1] \div 2, p[2] \div 2>>
RMul(x, y) == RHalve(RMul4(x, y))
RScale(n, x) == <<n * x[1], n * x[2]>>

VAdd(u, v) == <<RAdd(u[1], v[1]), RAdd(u[2], v[2]), RAdd(u[3], v[3])>>
VScale(x, v) == <<RMul(x, v[1]), RMul(x, v[2]), RMul(x, v[3])>>
VNeg(v) == <<RNeg(v[1]), RNeg(v[2]), RNeg(v[3])>>
Vec(x, y, z) == <<R(x), R(y), R(z)>>

\* np.radians(deg) / 2, as a multiple of 45 degrees in 0..7 (deg a multiple of 90).
HalfAngle(deg) == (deg \div 90) % 8
CosTable == <<One, Sqrt2Half, Zero, RNeg(Sqrt2Half), RNeg(One), RNeg(Sqrt2Half), Zero, Sqrt2Half>>
SinTable == <<Zero, Sqrt2Half, One, Sqrt2Half, Zero, RNeg(Sqrt2Half), RNeg(One), RNeg(Sqrt2Half)>>
cos_half(deg) == CosTable[HalfAngle(deg) + 1]
sin_half(deg) == SinTable[HalfAngle(deg) + 1]

\* ----------------------------------------------------------- quaternions
IdentityQuat == <<One, Zero, Zero, Zero>>

\* mujoco.mju_mulQuat(res, qa, qb): the Hamilton product qa * qb, w first.
mju_mulQuat(a, b) ==
  LET P(i, j) == RMul4(a[i], b[j])
      Sum4(p, q, r, s) == RHalve(RAdd(RAdd(p, q), RAdd(r, s)))
      N(p) == RNeg(p)
  IN  << Sum4(P(1, 1), N(P(2, 2)), N(P(3, 3)), N(P(4, 4))),
         Sum4(P(1, 2), P(2, 1), P(3, 4), N(P(4, 3))),
         Sum4(P(1, 3), N(P(2, 4)), P(3, 1), P(4, 2)),
         Sum4(P(1, 4), P(2, 3), N(P(3, 2)), P(4, 1)) >>

\* mujoco.mju_quat2Mat(rot_mat, quat): column c (1..3) of the rotation matrix.
mju_quat2Mat_col(q, c) ==
  LET P(i, j) == RMul4(q[i], q[j])
      Sq(p1, p2, p3, p4) == RHalve(RAdd(RAdd(p1, p2), RAdd(p3, p4)))
      Tw(p, s) == RAdd(p, s)  \* 2 * (p + s) / 4
  IN  CASE c = 1 -> << Sq(P(1, 1), P(2, 2), RNeg(P(3, 3)), RNeg(P(4, 4))),
                       Tw(P(2, 3), P(1, 4)),
                       Tw(P(2, 4), RNeg(P(1, 3))) >>
        [] c = 2 -> << Tw(P(2, 3), RNeg(P(1, 4))),
                       Sq(P(1, 1), RNeg(P(2, 2)), P(3, 3), RNeg(P(4, 4))),
                       Tw(P(3, 4), P(1, 2)) >>
        [] c = 3 -> << Tw(P(2, 4), P(1, 3)),
                       Tw(P(3, 4), RNeg(P(1, 2))),
                       Sq(P(1, 1), RNeg(P(2, 2)), RNeg(P(3, 3)), P(4, 4)) >>


\* -------------------------------------------------- agents and sensors
\* sensors.py: a SensorConfig.  rotation is left at its default (0, 0, 0).
Sensor(sensor_id, sensor_type, resolution) ==
  [sensor_id |-> sensor_id, sensor_type |-> sensor_type,
   position |-> Vec(0, 0, 0), resolution |-> resolution]

\* agents.py: MuJoCoAgent.__init__ (rotation is stored but never given to the scene).
MuJoCoAgent(agent_id, position, body_name, sensors) ==
  [agent_id |-> agent_id, position |-> position, body_name |-> body_name,
   sensors |-> sensors]

\* Default position (0.0, 1.5, 0.0) and default body_name of MuJoCoAgent.__init__.
DefaultPosition == Vec(0, 15, 0)
DefaultBodyName == "agent_body"

\* agents.py: SingleSensorAgent.__init__; sensor_type is "rgbd" or "semantic".
SingleSensorAgent(agent_id, sensor_id, sensor_type, resolution) ==
  MuJoCoAgent(agent_id, DefaultPosition, DefaultBodyName,
              << Sensor(sensor_id, sensor_type, resolution) >>)

\* agents.py: MultiSensorAgent.__init__, from (sensor_id, type) pairs.
MultiSensorAgent(agent_id, sensor_configs) ==
  MuJoCoAgent(agent_id, DefaultPosition, DefaultBodyName,
              [i \in 1..Len(sensor_configs) |->
                 Sensor(sensor_configs[i][1], sensor_configs[i][2], <<64, 64>>)])

\* agents.py: MuJoCoAgent.get_action_space / sensors.py: SensorConfig.get_action_space
AgentKinds ==
  {"move_forward", "turn_left", "turn_right", "look_up", "look_down", "set_agent_pose"}
SensorKinds == {"set_sensor_pose", "set_sensor_rotation", "set_sensor_pitch"}
Qualified(agent_id, kind) == agent_id \o "." \o kind
sensor_get_action_space(agent_id) == {Qualified(agent_id, k) : k \in SensorKinds}
agent_get_action_space(agent) ==
  {Qualified(agent.agent_id, k) : k \in AgentKinds}
    \cup (IF Len(agent.sensors) > 0 THEN sensor_get_action_space(agent.agent_id) ELSE {})

\* ------------------------------------------------------------ the scene
SeqToSet(s) == {s[i] : i \in 1..Len(s)}
Distinct(s) == \A i, j \in 1..Len(s) : i # j => s[i] # s[j]
\* The least index of x in s (x occurs in s).
IndexOf(s, x) == CHOOSE i \in 1..Len(s) : s[i] = x /\ \A j \in 1..(i - 1) : s[j] # x

EmptySpec == [lights |-> <<>>, geoms |-> <<>>, bodies |-> <<>>, cameras |-> <<>>,
              gravity |-> "default"]

\* A simulator object on which nothing is bound yet.
NewObject(agents) ==
  [attrs |-> {}, agents |-> agents, enable_physics |-> FALSE, seed |-> 0,
   spec |-> EmptySpec, model |-> None, data |-> None,
   body_id |-> [i \in 1..Len(agents) |-> None],
   camera_id |-> [i \in 1..Len(agents) |-> [j \in 1..Len(agents[i].sensors) |-> None]],
   body_fresh |-> [i \in 1..Len(agents) |-> FALSE],
   cam_fresh |-> [i \in 1..Len(agents) |-> [j \in 1..Len(agents[i].sensors) |-> FALSE]],
   action_space |-> {}, agent_id_to_agent |-> {}, object_counter |-> 0,
   renderer |-> [depth |-> FALSE, fresh |-> FALSE], events |-> <<>>, err |-> "none"]

Raise(self, e) == [self EXCEPT !.err = e]
\* The position of the running call: what it has done so far, in order (rules
\* of the actuator entered, engine steps, frames rendered).
Event(self, e) == [self EXCEPT !.events = Append(@, e)]
Bind(self, names) == [self EXCEPT !.attrs = @ \cup names]

\* simulator.py: _setup_basic_scene.  Reads self.enable_physics.
setup_basic_scene(self) ==
  LET lit == [self.spec EXCEPT !.lights = Append(@, "main_light"),
                               !.geoms = Append(@, "ground")]
  IN  IF "enable_physics" \notin self.attrs
        THEN Raise([self EXCEPT !.spec = lit], "AttributeError")
        ELSE [self EXCEPT !.spec = [lit EXCEPT !.gravity =
                                      IF self.enable_physics THEN "on" ELSE "off"]]

\* _setup_agents replacing the action space by the last agent's.
setup_agent_last_wins(self, i) ==
  LET agent == self.agents[i]
      cams == [j \in 1..Len(agent.sensors) |->
                 [name |-> agent.sensors[j].sensor_id, pos |-> agent.sensors[j].position]]
  IN  [self EXCEPT
         !.action_space = agent_get_action_space(agent),
         !.agent_id_to_agent = {p \in @ : p[1] # agent.agent_id} \cup {<<agent.agent_id, i>>},
         !.spec = [@ EXCEPT !.bodies = Append(@, [name |-> agent.body_name,
                                                   pos |-> agent.position]),
                            !.geoms = Append(@, agent.agent_id \o "_geom"),
                            !.cameras = @ \o cams]]

\* simulator.py: _setup_agents, the loop body for agent i.
setup_agent(self, i) ==
  LET agent == self.agents[i]
      cams == [j \in 1..Len(agent.sensors) |->
                 [name |-> agent.sensors[j].sensor_id, pos |-> agent.sensors[j].position]]
  IN  [self EXCEPT
         !.action_space = @ \cup agent_get_action_space(agent),
         !.agent_id_to_agent = {p \in @ : p[1] # agent.agent_id} \cup {<<agent.agent_id, i>>},
         !.spec = [@ EXCEPT !.bodies = Append(@, [name |-> agent.body_name,
                                                   pos |-> agent.position]),
                            !.geoms = Append(@, agent.agent_id \o "_geom"),
                            !.cameras = @ \o cams]]

RECURSIVE setup_agents_from(_, _)
setup_agents_from(self, i) ==
  IF i > Len(self.agents) THEN self ELSE setup_agents_from(setup_agent(self, i), i + 1)
\* simulator.py: _setup_agents
setup_agents(self) == setup_agents_from(self, 1)

\* MjSpec.compile(): names are unique within bodies, geoms and cameras.
Compiles(spec) ==
  /\ Distinct([i \in 1..Len(spec.bodies) |-> spec.bodies[i].name])
  /\ Distinct(spec.geoms)
  /\ Distinct([i \in 1..Len(spec.cameras) |-> spec.cameras[i].name])

\* The compiled model: body id i is the i-th body of the scene (the world is 0).
CompiledModel(spec) ==
  [body_names |-> [i \in 1..Len(spec.bodies) |-> spec.bodies[i].name],
   body_pos |-> [i \in 1..Len(spec.bodies) |-> spec.bodies[i].pos],
   cam_names |-> [i \in 1..Len(spec.cameras) |-> spec.cameras[i].name],
   cam_pos |-> [i \in 1..Len(spec.cameras) |-> spec.cameras[i].pos],
   cam_quat |-> [i \in 1..Len(spec.cameras) |-> IdentityQuat]]

\* MjData(model) and mj_resetData: every body at its pose in the model.
MjData(m) ==
  [xpos |-> m.body_pos, xquat |-> [i \in 1..Len(m.body_names) |-> IdentityQuat]]

\* simulator.py: _recompile.  Handles resolved before it belong to the old model.
recompile(self) ==
  IF ~Compiles(self.spec)
    THEN Raise(self, "ValueError")
    ELSE LET m == CompiledModel(self.spec)
         IN  [Bind(self, {"model", "data"}) EXCEPT
                !.model = Some(m), !.data = Some(MjData(m)),
                !.body_fresh = [i \in DOMAIN @ |-> FALSE],
                !.cam_fresh = [i \in DOMAIN @ |-> [j \in DOMAIN @[i] |-> FALSE]],
                !.renderer = [@ EXCEPT !.fresh = FALSE]]

\* sensors.py: initialize of sensor j of agent i (the same in the three classes).
sensor_initialize(self, i, j) ==
  LET name == self.agents[i].sensors[j].sensor_id
      m == The(self.model)
  IN  IF name \notin SeqToSet(m.cam_names)
        THEN Raise(self, "RuntimeError")
        ELSE [self EXCEPT !.camera_id[i][j] = Some(IndexOf(m.cam_names, name) - 1),
                          !.cam_fresh[i][j] = TRUE]

RECURSIVE sensors_initialize_from(_, _, _)
sensors_initialize_from(self, i, j) ==
  IF self.err # "none" \/ j > Len(self.agents[i].sensors)
    THEN self
    ELSE sensors_initialize_from(sensor_initialize(self, i, j), i, j + 1)

\* MuJoCoAgent.initialize leaving the agent as it is when its body is not found.
agent_initialize_skipping(self, i) ==
  LET name == self.agents[i].body_name
      m == The(self.model)
  IN  IF name \notin SeqToSet(m.body_names)
        THEN self
        ELSE sensors_initialize_from(
               [self EXCEPT !.body_id[i] = Some(IndexOf(m.body_names, name)),
                            !.body_fresh[i] = TRUE], i, 1)

\* agents.py: MuJoCoAgent.initialize for agent i.
agent_initialize(self, i) ==
  LET name == self.agents[i].body_name
      m == The(self.model)
  IN  IF name \notin SeqToSet(m.body_names)
        THEN Raise(self, "KeyError")
        ELSE sensors_initialize_from(
               [self EXCEPT !.body_id[i] = Some(IndexOf(m.body_names, name)),
                            !.body_fresh[i] = TRUE], i, 1)

RECURSIVE initialize_agents_from(_, _)
initialize_agents_from(self, i) ==
  IF self.err # "none" \/ i > Len(self.agents)
    THEN self
    ELSE initialize_agents_from(agent_initialize(self, i), i + 1)
\* simulator.py: "for agent in self._agents: agent.initialize(self)"
initialize_agents(self) == initialize_agents_from(self, 1)

\* Sequencing: g is applied unless f raised.
Then(self, next) == IF self.err # "none" THEN self ELSE next

\* simulator.py: __init__(agents, data_path=None, seed, enable_physics), run on `obj`.
init(obj, agents, seed, enable_physics) ==
  LET s1 == setup_basic_scene([Bind(obj, {"spec"}) EXCEPT !.spec = EmptySpec])
      s2 == [Bind(s1, {"_agents", "data_path", "enable_physics", "seed", "np_rng",
                       "_action_space", "_agent_id_to_agent", "_object_counter",
                       "_object_templates"})
               EXCEPT !.agents = agents, !.enable_physics = enable_physics,
                      !.seed = seed, !.action_space = {}, !.agent_id_to_agent = {},
                      !.object_counter = 0,
                      \* the agents come with no handle resolved
                      !.body_id = NewObject(agents).body_id,
                      !.camera_id = NewObject(agents).camera_id,
                      !.body_fresh = NewObject(agents).body_fresh,
                      !.cam_fresh = NewObject(agents).cam_fresh]
      s3 == setup_agents(s2)
      s4 == recompile(s3)
      s5 == initialize_agents(s4)
  IN  Then(s1, Then(s4, s5))

\* --------------------------------------------------------------- arrays
\* A numpy array: its shape, its element type and, for each index of the
\* leading axes, the row of values along the last axis.
LeadingIndex(shape) ==
  IF Len(shape) = 3 THEN (1..shape[1]) \X (1..shape[2]) ELSE {<<i>> : i \in 1..shape[1]}
Array(shape, dtype, at) == [shape |-> shape, dtype |-> dtype, at |-> at]
LastDim(a) == a.shape[Len(a.shape)]
\* The integer n stored in an element of type dtype.
Stored(n, dtype) == IF dtype = "uint8" THEN n % 256 ELSE n

\* Python dicts, as functions on the set of their keys.
EmptyDict == [k \in {} |-> None]
DictSet(d, key, v) == [k \in DOMAIN d \cup {key} |-> IF k = key THEN v ELSE d[k]]
\* dict.get(key, None)
DictGet(d, key) == IF key \in DOMAIN d THEN Some(d[key]) ELSE None

\* -------------------------------------------------------------- sensors
\* isinstance(raw_obs, dict): an array is a record with a shape.
IsDict(raw_obs) == "shape" \notin DOMAIN raw_obs

\* RGBDSensorConfig.process_observation with np.ones(...) left unscaled.
rgbd_process_observation_unscaled(raw_obs) ==
  LET rgba == IF IsDict(raw_obs) THEN DictGet(raw_obs, "rgb") ELSE Some(raw_obs)
      depth == IF IsDict(raw_obs) THEN DictGet(raw_obs, "depth") ELSE None
      img == The(rgba)
      with_alpha == Array(SubSeq(img.shape, 1, Len(img.shape) - 1) \o <<LastDim(img) + 1>>,
                          img.dtype,
                          [p \in LeadingIndex(img.shape) |-> Append(img.at[p], 1)])
      r1 == IF IsNone(rgba) THEN EmptyDict
            ELSE DictSet(EmptyDict, "rgba", IF LastDim(img) = 3 THEN with_alpha ELSE img)
  IN  IF IsNone(depth) THEN r1 ELSE DictSet(r1, "depth", The(depth))

\* sensors.py: RGBDSensorConfig.process_observation
rgbd_process_observation(raw_obs) ==
  LET rgba == IF IsDict(raw_obs) THEN DictGet(raw_obs, "rgb") ELSE Some(raw_obs)
      depth == IF IsDict(raw_obs) THEN DictGet(raw_obs, "depth") ELSE None
      img == The(rgba)
      alpha == Stored(1, img.dtype) * Opaque
      with_alpha == Array(SubSeq(img.shape, 1, Len(img.shape) - 1) \o <<LastDim(img) + 1>>,
                          img.dtype,
                          [p \in LeadingIndex(img.shape) |->
                             Append(img.at[p], Stored(alpha, img.dtype))])
      r1 == IF IsNone(rgba) THEN EmptyDict
            ELSE DictSet(EmptyDict, "rgba", IF LastDim(img) = 3 THEN with_alpha ELSE img)
  IN  IF IsNone(depth) THEN r1 ELSE DictSet(r1, "depth", The(depth))

\* sensors.py: SemanticSensorConfig.process_observation (raw_obs a dict).
semantic_process_observation(raw_obs) ==
  LET semantic == IF "segmentation" \in DOMAIN raw_obs
                    THEN Some(raw_obs["segmentation"])
                    ELSE DictGet(raw_obs, "semantic")
  IN  IF IsNone(semantic) THEN EmptyDict
      ELSE DictSet(EmptyDict, "semantic", [The(semantic) EXCEPT !.dtype = "int32"])

\* sensors.py: DepthSensorConfig.process_observation (raw_obs a dict).
depth_process_observation(raw_obs) ==
  LET depth == DictGet(raw_obs, "depth")
  IN  IF IsNone(depth) THEN EmptyDict ELSE DictSet(EmptyDict, "depth", The(depth))

\* sensor.process_observation, by the sensor's class.
process_observation(sensor, raw_obs) ==
  CASE sensor.sensor_type = "rgbd" -> rgbd_process_observation(raw_obs)
    [] sensor.sensor_type = "semantic" -> semantic_process_observation(raw_obs)
    [] OTHER -> depth_process_observation(raw_obs)

\* ------------------------------------------------------------ rendering
\* Renderer.render(): a colour frame, or a depth frame once depth rendering is on.
ColorFrame ==
  Array(<<RendererHeight, RendererWidth, 3>>, "uint8",
        [p \in (1..RendererHeight) \X (1..RendererWidth) |-> <<0, 0, 0>>])
DepthFrame ==
  Array(<<RendererHeight, RendererWidth>>, "float32",
        [p \in {<<i>> : i \in 1..RendererHeight} |-> [j \in 1..RendererWidth |-> 1]])
render(renderer) == IF renderer.depth THEN DepthFrame ELSE ColorFrame

\* simulator.py: _render_camera_observation: <<self afterwards, the raw observation>>.
render_camera_observation(self, sensor) ==
  LET s1 == IF "_renderer" \in self.attrs THEN self
            ELSE [Bind(self, {"_renderer"}) EXCEPT !.renderer = [depth |-> FALSE, fresh |-> TRUE]]
      rgb_img == render(s1.renderer)
      wants_depth == sensor.sensor_type \in {"rgbd", "depth"}
      s2 == IF wants_depth THEN Event([Event(s1, "render") EXCEPT !.renderer.depth = TRUE], "render")
            ELSE Event(s1, "render")
      r1 == DictSet(EmptyDict, "rgb", rgb_img)
  IN  << s2, IF wants_depth THEN DictSet(r1, "depth", render(s2.renderer)) ELSE r1 >>

\* What is kept of a processed observation: per channel, shape and element type.
Summary(processed) ==
  [k \in DOMAIN processed |-> [shape |-> processed[k].shape, dtype |-> processed[k].dtype]]

\* simulator.py: get_observations, sensors j.. of agent i: <<self, agent_obs>>.
RECURSIVE observe_sensors_from(_, _, _, _)
observe_sensors_from(self, i, j, agent_obs) ==
  IF j > Len(self.agents[i].sensors) THEN <<self, agent_obs>>
  ELSE LET sensor == self.agents[i].sensors[j]
           r == render_camera_observation(self, sensor)
       IN  IF IsNone(self.camera_id[i][j])
             THEN observe_sensors_from(self, i, j + 1, agent_obs)
             ELSE observe_sensors_from(r[1], i, j + 1,
                    DictSet(agent_obs, sensor.sensor_id,
                            Summary(process_observation(sensor, r[2]))))

RECURSIVE observe_agents_from(_, _, _)
observe_agents_from(self, i, observations) ==
  IF i > Len(self.agents) THEN <<self, observations>>
  ELSE LET r == observe_sensors_from(self, i, 1, EmptyDict)
       IN  observe_agents_from(r[1], i + 1,
                               DictSet(observations, self.agents[i].agent_id, r[2]))

\* mujoco.mj_step(self.model, self.data) reads both attributes.
HasModel(self) == {"model", "data"} \subseteq self.attrs

\* simulator.py: get_observations: <<self afterwards, Some(observations) or None>>.
get_observations(self) ==
  IF ~HasModel(self) THEN << Raise(self, "AttributeError"), None >>
  ELSE LET r == observe_agents_from(Event(self, "mj_step"), 1, EmptyDict)
       IN  << r[1], Some(r[2]) >>

\* ------------------------------------------------------------- actions
\* An action of the host protocol, with the fields the actuator reads.
\* position, rotation and sensor_id are None when the action carries none;
\* rotation is a sequence of 4 (quaternion) or 3 (Euler angles) numbers.
\* kind is the action's class and name its name attribute, which the classes
\* of the protocol derive from the class.
Action(kind, agent_id) ==
  [kind |-> kind, name |-> kind, agent_id |-> agent_id, distance |-> 0, rotation_degrees |-> 0,
   direction |-> 1, position |-> None, rotation |-> None, sensor_id |-> None]

\* actuator.py: action_name
action_name(action) == Qualified(action.agent_id, action.name)

\* simulator.py: get_agent: Some(index into self._agents) or None.
get_agent(self, agent_id) ==
  IF \E p \in self.agent_id_to_agent : p[1] = agent_id
    THEN Some((CHOOSE p \in self.agent_id_to_agent : p[1] = agent_id)[2])
    ELSE None

xpos(self, b) == The(self.data).xpos[b]
xquat(self, b) == The(self.data).xquat[b]
SetPos(self, b, v) == [self EXCEPT !.data = Some([The(@) EXCEPT !.xpos[b] = v])]
SetQuat(self, b, q) == [self EXCEPT !.data = Some([The(@) EXCEPT !.xquat[b] = q])]
YawQuat(deg) == <<cos_half(deg), Zero, sin_half(deg), Zero>>
PitchQuat(deg) == <<cos_half(deg), sin_half(deg), Zero, Zero>>

\* The common frame of the agent actuators: agent = self.get_agent(...),
\* body_id = agent._body_id, "if body_id is not None:" reading self.data.
OnBody(self, action, effect(_, _)) ==
  LET agent == get_agent(self, action.agent_id)
      body_id == self.body_id[The(agent)]
  IN  IF IsNone(agent) THEN Raise(self, "AttributeError")
      ELSE IF IsNone(body_id) THEN self
      ELSE IF "data" \notin self.attrs THEN Raise(self, "AttributeError")
      ELSE effect(self, The(body_id))

\* actuate_move_forward along +rot_mat[:, 2], the backward axis.
actuate_move_forward_backward(self, action) ==
  LET Move(s, b) ==
        SetPos(s, b, VAdd(xpos(s, b),
                          VScale(R(action.distance), mju_quat2Mat_col(xquat(s, b), 3))))
  IN  OnBody(self, action, Move)

\* actuator.py: actuate_move_forward
actuate_move_forward(self, action) ==
  LET Move(s, b) ==
        SetPos(s, b, VAdd(xpos(s, b),
                          VScale(R(action.distance), VNeg(mju_quat2Mat_col(xquat(s, b), 3)))))
  IN  OnBody(self, action, Move)

\* actuator.py: actuate_turn_left
actuate_turn_left(self, action) ==
  LET Turn(s, b) == SetQuat(s, b, mju_mulQuat(xquat(s, b), YawQuat(action.rotation_degrees)))
  IN  OnBody(self, action, Turn)

\* actuate_turn_right with the angle of actuate_turn_left, not negated.
actuate_turn_right_positive(self, action) ==
  LET Turn(s, b) == SetQuat(s, b, mju_mulQuat(xquat(s, b), YawQuat(action.rotation_degrees)))
  IN  OnBody(self, action, Turn)

\* actuator.py: actuate_turn_right
actuate_turn_right(self, action) ==
  LET Turn(s, b) == SetQuat(s, b, mju_mulQuat(xquat(s, b), YawQuat(0 - action.rotation_degrees)))
  IN  OnBody(self, action, Turn)

\* actuator.py: actuate_look_up (constraint_degrees is read and not used)
actuate_look_up(self, action) ==
  LET Tilt(s, b) == SetQuat(s, b, mju_mulQuat(xquat(s, b), PitchQuat(0 - action.rotation_degrees)))
  IN  OnBody(self, action, Tilt)

\* actuator.py: actuate_look_down
actuate_look_down(self, action) ==
  LET Tilt(s, b) == SetQuat(s, b, mju_mulQuat(xquat(s, b), PitchQuat(action.rotation_degrees)))
  IN  OnBody(self, action, Tilt)

\* actuator.py: actuate_set_agent_pose.  The Euler branch imports from "mujuco".
actuate_set_agent_pose(self, action) ==
  LET Pose(s, b) ==
        LET s1 == IF IsNone(action.position) THEN s ELSE SetPos(s, b, The(action.position))
        IN  IF IsNone(action.rotation) THEN s1
            ELSE IF Len(The(action.rotation)) = 4 THEN SetQuat(s1, b, The(action.rotation))
            ELSE Raise(s1, "ModuleNotFoundError")
  IN  OnBody(self, action, Pose)

\* actuator.py: actuate_move_tangentially
actuate_move_tangentially(self, action) ==
  LET Move(s, b) ==
        SetPos(s, b, VAdd(xpos(s, b),
                          VScale(R(action.direction * action.distance),
                                 mju_quat2Mat_col(xquat(s, b), 1))))
  IN  OnBody(self, action, Move)

\* Half the angle about Z, in multiples of 45 degrees, of the Z-Y-X Euler
\* decomposition of a rotation whose matrix has first column col1: atan2(col1[2], col1[1]).
EulerZHalf(col1) ==
  CASE col1[1] = One -> 0
    [] col1[2] = One -> 1
    [] col1[1] = RNeg(One) -> 2
    [] col1[2] = RNeg(One) -> 7
    [] OTHER -> 0

\* actuator.py: actuate_orient_horizontal: to Euler angles, euler[0] = euler[1] = 0,
\* back to a quaternion: the rotation about Z by euler[2].
actuate_orient_horizontal(self, action) ==
  LET Level(s, b) ==
        LET k == EulerZHalf(mju_quat2Mat_col(xquat(s, b), 1))
        IN  SetQuat(s, b, <<CosTable[k + 1], Zero, Zero, SinTable[k + 1]>>)
  IN  OnBody(self, action, Level)

\* actuator.py: actuate_orient_vertical
actuate_orient_vertical(self, action) ==
  LET Upright(s, b) == SetQuat(s, b, IdentityQuat)
  IN  OnBody(self, action, Upright)

\* actuator.py: actuate_set_yaw
actuate_set_yaw(self, action) ==
  LET Yaw(s, b) == SetQuat(s, b, YawQuat(action.rotation_degrees))
  IN  OnBody(self, action, Yaw)

\* actuator.py: actuate_set_agent_pitch
actuate_set_agent_pitch(self, action) ==
  LET Pitch(s, b) == SetQuat(s, b, PitchQuat(action.rotation_degrees))
  IN  OnBody(self, action, Pitch)

\* The common frame of the sensor actuators: the first sensor of the agent with
\* the action's sensor_id and a resolved camera; nothing happens without one.
OnCamera(self, action, effect(_, _)) ==
  LET agent == get_agent(self, action.agent_id)
      i == The(agent)
      hits == {j \in 1..Len(self.agents[i].sensors) :
                 /\ self.agents[i].sensors[j].sensor_id = The(action.sensor_id)
                 /\ ~IsNone(self.camera_id[i][j])}
      j0 == CHOOSE j \in hits : \A k \in hits : j <= k
  IN  IF IsNone(agent) THEN Raise(self, "AttributeError")
      ELSE IF IsNone(action.sensor_id) \/ hits = {} THEN self
      ELSE IF "model" \notin self.attrs THEN Raise(self, "AttributeError")
      ELSE effect(self, The(self.camera_id[i][j0]) + 1)

SetCamPos(self, c, v) == [self EXCEPT !.model = Some([The(@) EXCEPT !.cam_pos[c] = v])]
\* model.cam_quat[camera_id] = np.array(q): a row of 4 takes 4 values only.
SetCamQuat(self, c, q) ==
  IF Len(q) # 4 THEN Raise(self, "ValueError")
  ELSE [self EXCEPT !.model = Some([The(@) EXCEPT !.cam_quat[c] = q])]

\* actuator.py: actuate_set_sensor_pose: a rotation of 3 numbers is written to cam_quat.
actuate_set_sensor_pose(self, action) ==
  LET Pose(s, c) ==
        LET s1 == IF IsNone(action.position) THEN s ELSE SetCamPos(s, c, The(action.position))
        IN  IF ~IsNone(action.rotation) /\ Len(The(action.rotation)) = 3
              THEN SetCamQuat(s1, c, The(action.rotation))
              ELSE s1
  IN  OnCamera(self, action, Pose)

\* actuator.py: actuate_set_sensor_rotation
actuate_set_sensor_rotation(self, action) ==
  LET Rot(s, c) == IF IsNone(action.rotation) THEN s ELSE SetCamQuat(s, c, The(action.rotation))
  IN  OnCamera(self, action, Rot)

\* actuate_set_sensor_pitch turning the first camera of the model, whatever the
\* action's sensor_id finds.
actuate_set_sensor_pitch_first_camera(self, action) ==
  SetCamQuat(self, 1, PitchQuat(action.rotation_degrees))

\* actuator.py: actuate_set_sensor_pitch
actuate_set_sensor_pitch(self, action) ==
  LET Pitch(s, c) == SetCamQuat(s, c, PitchQuat(action.rotation_degrees))
  IN  OnCamera(self, action, Pitch)

\* The isinstance chain with a final else that does nothing.
dispatch_ignoring(self, action) ==
  CASE action.kind = "move_forward" -> actuate_move_forward(Event(self, "actuate_move_forward"), action)
    [] action.kind = "turn_left" -> actuate_turn_left(Event(self, "actuate_turn_left"), action)
    [] action.kind = "turn_right" -> actuate_turn_right(Event(self, "actuate_turn_right"), action)
    [] action.kind = "look_up" -> actuate_look_up(Event(self, "actuate_look_up"), action)
    [] action.kind = "look_down" -> actuate_look_down(Event(self, "actuate_look_down"), action)
    [] action.kind = "set_agent_pose" -> actuate_set_agent_pose(Event(self, "actuate_set_agent_pose"), action)
    [] action.kind = "set_sensor_pose" -> actuate_set_sensor_pose(Event(self, "actuate_set_sensor_pose"), action)
    [] action.kind = "set_sensor_rotation" -> actuate_set_sensor_rotation(Event(self, "actuate_set_sensor_rotation"), action)
    [] action.kind = "move_tangentially" -> actuate_move_tangentially(Event(self, "actuate_move_tangentially"), action)
    [] action.kind = "orient_horizontal" -> actuate_orient_horizontal(Event(self, "actuate_orient_horizontal"), action)
    [] action.kind = "orient_vertical" -> actuate_orient_vertical(Event(self, "actuate_orient_vertical"), action)
    [] action.kind = "set_yaw" -> actuate_set_yaw(Event(self, "actuate_set_yaw"), action)
    [] action.kind = "set_agent_pitch" -> actuate_set_agent_pitch(Event(self, "actuate_set_agent_pitch"), action)
    [] action.kind = "set_sensor_pitch" -> actuate_set_sensor_pitch(Event(self, "actuate_set_sensor_pitch"), action)
    [] OTHER -> self

\* simulator.py: apply_action, the isinstance chain.
dispatch(self, action) ==
  CASE action.kind = "move_forward" -> actuate_move_forward(Event(self, "actuate_move_forward"), action)
    [] action.kind = "turn_left" -> actuate_turn_left(Event(self, "actuate_turn_left"), action)
    [] action.kind = "turn_right" -> actuate_turn_right(Event(self, "actuate_turn_right"), action)
    [] action.kind = "look_up" -> actuate_look_up(Event(self, "actuate_look_up"), action)
    [] action.kind = "look_down" -> actuate_look_down(Event(self, "actuate_look_down"), action)
    [] action.kind = "set_agent_pose" -> actuate_set_agent_pose(Event(self, "actuate_set_agent_pose"), action)
    [] action.kind = "set_sensor_pose" -> actuate_set_sensor_pose(Event(self, "actuate_set_sensor_pose"), action)
    [] action.kind = "set_sensor_rotation" -> actuate_set_sensor_rotation(Event(self, "actuate_set_sensor_rotation"), action)
    [] action.kind = "move_tangentially" -> actuate_move_tangentially(Event(self, "actuate_move_tangentially"), action)
    [] action.kind = "orient_horizontal" -> actuate_orient_horizontal(Event(self, "actuate_orient_horizontal"), action)
    [] action.kind = "orient_vertical" -> actuate_orient_vertical(Event(self, "actuate_orient_vertical"), action)
    [] action.kind = "set_yaw" -> actuate_set_yaw(Event(self, "actuate_set_yaw"), action)
    [] action.kind = "set_agent_pitch" -> actuate_set_agent_pitch(Event(self, "actuate_set_agent_pitch"), action)
    [] action.kind = "set_sensor_pitch" -> actuate_set_sensor_pitch(Event(self, "actuate_set_sensor_pitch"), action)
    [] OTHER -> Raise(self, "TypeError")

\* The name test of apply_action, asking for a known agent instead of a known name.
InActionSpace_known_agent(self, action) == ~IsNone(get_agent(self, action.agent_id))

\* simulator.py: apply_action, the membership test of the qualified name.
InActionSpace(self, action) == action_name(action) \in self.action_space

\* simulator.py: apply_action: <<self afterwards, Some(observations) or None>>.
apply_action(self, action) ==
  IF ~InActionSpace(self, action) THEN << Raise(self, "ValueError"), None >>
  ELSE LET s1 == dispatch(self, action)
       IN  IF s1.err # "none" THEN << s1, None >> ELSE get_observations(s1)

\* ------------------------------------------------------------- objects
\* simulator.py: _add_primitive_object: one body and one geom, whatever the shape.
add_primitive_object(self, obj_name, position) ==
  [self EXCEPT !.spec = [@ EXCEPT !.bodies = Append(@, [name |-> obj_name, pos |-> position]),
                                  !.geoms = Append(@, obj_name \o "_geom")]]

\* The number of contact checks made when the first `contacts` checks find a contact.
ChecksMade(contacts) == IF contacts < max_attempts THEN contacts + 1 ELSE max_attempts

\* n engine steps in a row.
Steps(self, n) == [self EXCEPT !.events = @ \o [i \in 1..n |-> "mj_step"]]

\* The state of the loop of the collision avoidance: where the object is, the
\* engine steps (contact checks) made, and whether the loop was left by break.
Loop(pos, checks, broke) == [pos |-> pos, checks |-> checks, broke |-> broke]

\* simulator.py: _handle_object_collision_avoidance, the iterations
\* lo .. hi - 1 of "for attempt in range(max_attempts)" (split in halves).  The
\* engine reports a contact with the object at the first `contacts` checks;
\* `direction` is the unit vector drawn from np_rng (every move starts from
\* start_position, so only the one drawn last decides the position).
RECURSIVE avoid_range(_, _, _, _, _, _)
avoid_range(st, lo, hi, start_position, contacts, direction) ==
  IF st.broke THEN st
  ELSE IF hi - lo = 1
    THEN LET has_collision == lo < contacts
         IN  IF ~has_collision THEN Loop(st.pos, st.checks + 1, TRUE)
             ELSE Loop(VAdd(start_position, VScale(R(step_size * lo), direction)),
                       st.checks + 1, FALSE)
    ELSE LET mid == (lo + hi) \div 2
             st1 == avoid_range(st, lo, mid, start_position, contacts, direction)
         IN  avoid_range(st1, mid, hi, start_position, contacts, direction)

\* _handle_object_collision_avoidance without "self.data.xpos[obj_body_id] = new_pos".
handle_object_collision_avoidance_unmoved(self, obj_name, start_position, contacts, direction) ==
  LET m == The(self.model)
      obj_body_id == IndexOf(m.body_names, obj_name)
      st == avoid_range(Loop(xpos(self, obj_body_id), 0, FALSE), 0, max_attempts,
                        start_position, contacts, direction)
  IN  IF obj_name \notin SeqToSet(m.body_names) THEN self
      ELSE Steps(self, st.checks)

\* simulator.py: _handle_object_collision_avoidance
handle_object_collision_avoidance(self, obj_name, start_position, contacts, direction) ==
  LET m == The(self.model)
      obj_body_id == IndexOf(m.body_names, obj_name)
      st == avoid_range(Loop(xpos(self, obj_body_id), 0, FALSE), 0, max_attempts,
                        start_position, contacts, direction)
  IN  IF obj_name \notin SeqToSet(m.body_names) THEN self
      ELSE Steps(SetPos(self, obj_body_id, st.pos), st.checks)

\* add_object without "self._object_counter += 1".
add_object_counter_kept(self, name, position, object_to_avoid, contacts, direction) ==
  LET obj_name == name \o "_" \o ToString(self.object_counter)
      s1 == add_primitive_object(self, obj_name, position)
      s2 == recompile(s1)
      s3 == initialize_agents(s2)
      s4 == IF object_to_avoid /\ self.enable_physics
              THEN handle_object_collision_avoidance(s3, obj_name, position, contacts, direction)
              ELSE s3
  IN  Then(s2, Then(s3, s4))

\* add_object without "for agent in self._agents: agent.initialize(self)".
add_object_handles_kept(self, name, position, object_to_avoid, contacts, direction) ==
  LET obj_name == name \o "_" \o ToString(self.object_counter)
      s1 == add_primitive_object(self, obj_name, position)
      s2 == recompile(s1)
      s4 == IF object_to_avoid /\ self.enable_physics
              THEN handle_object_collision_avoidance(s2, obj_name, position, contacts, direction)
              ELSE s2
  IN  Then(s2, [s4 EXCEPT !.object_counter = @ + 1])

\* simulator.py: add_object(name, position, object_to_avoid=...)
add_object(self, name, position, object_to_avoid, contacts, direction) ==
  LET obj_name == name \o "_" \o ToString(self.object_counter)
      s1 == add_primitive_object(self, obj_name, position)
      s2 == recompile(s1)
      s3 == initialize_agents(s2)
      s4 == IF object_to_avoid /\ self.enable_physics
              THEN handle_object_collision_avoidance(s3, obj_name, position, contacts, direction)
              ELSE s3
  IN  Then(s2, Then(s3, [s4 EXCEPT !.object_counter = @ + 1]))

\* remove_all_objects without "self._object_counter = 0".
remove_all_objects_counter_kept(self) ==
  LET s1 == setup_basic_scene([self EXCEPT !.spec = EmptySpec])
      s2 == setup_agents(s1)
      s3 == recompile(s2)
      s4 == initialize_agents(s3)
  IN  Then(s1, Then(s3, s4))

\* simulator.py: remove_all_objects
remove_all_objects(self) ==
  LET s1 == setup_basic_scene([self EXCEPT !.spec = EmptySpec])
      s2 == setup_agents(s1)
      s3 == recompile(s2)
      s4 == initialize_agents(s3)
  IN  Then(s1, Then(s3, Then(s4, [s4 EXCEPT !.object_counter = 0])))

\* simulator.py: get_num_objects
get_num_objects(self) == self.object_counter

\* simulator.py: get_action_space
get_action_space(self) == self.action_space

\* reset rebuilding the scene with the agents only.
reset_clearing_scene(self) ==
  IF ~HasModel(self) THEN << Raise(self, "AttributeError"), None >>
  ELSE get_observations(remove_all_objects(self))

\* simulator.py: reset: <<self afterwards, Some(observations) or None>>.
reset(self) ==
  IF ~HasModel(self) THEN << Raise(self, "AttributeError"), None >>
  ELSE get_observations([self EXCEPT !.data = Some(MjData(The(self.model)))])

\* close deleting the renderer only.
close_renderer_only(self) == [self EXCEPT !.attrs = @ \ {"_renderer"}]

\* simulator.py: close: "del" of the attributes that exist.
close(self) ==
  [self EXCEPT !.attrs = @ \ {"_renderer", "model", "data"}, !.model = None, !.data = None]

\* simulator.py: __exit__(exc_type, ...), called by the with statement with the
\* exception leaving the block ("none" when there is none).  It returns None,
\* so the exception goes on to the caller.
exit(self, exc_type) == Raise(close(self), exc_type)

\* simulator.py: get_states: agent_id -> position, rotation and the sensors' offsets.
get_states(self) ==
  LET resolved == {i \in 1..Len(self.agents) : ~IsNone(self.body_id[i])}
      SensorStates(i) ==
        LET seen == {j \in 1..Len(self.agents[i].sensors) : ~IsNone(self.camera_id[i][j])}
        IN  [sid \in {self.agents[i].sensors[j].sensor_id : j \in seen} |->
               LET j == CHOOSE j \in seen : self.agents[i].sensors[j].sensor_id = sid
                                            /\ \A k \in seen : self.agents[i].sensors[k].sensor_id = sid => k <= j
               IN  [position |-> The(self.model).cam_pos[The(self.camera_id[i][j]) + 1]]]
  IN  [aid \in {self.agents[i].agent_id : i \in resolved} |->
         LET i == CHOOSE i \in resolved : self.agents[i].agent_id = aid
                                          /\ \A k \in resolved : self.agents[k].agent_id = aid => k <= i
         IN  [position |-> xpos(self, The(self.body_id[i])),
              rotation |-> xquat(self, The(self.body_id[i])),
              sensors |-> SensorStates(i)]]

\* ---------------------------------------------------------------- state
VARIABLES
  pc,                 \* "new": not constructed, "ready": constructed, "raised": __init__ raised
  attrs,              \* the attribute names bound on the simulator object
  agents,             \* self._agents
  enable_physics,     \* self.enable_physics
  seed,               \* self.seed
  spec,               \* self.spec, the scene description
  model,              \* self.model, the compiled model, or None
  data,               \* self.data, or None
  body_id,            \* agent._body_id of each agent
  camera_id,          \* sensor._camera_id of each sensor of each agent
  body_fresh,         \* whether agent._body_id was resolved against self.model
  cam_fresh,          \* whether sensor._camera_id was resolved against self.model
  action_space,       \* self._action_space
  agent_id_to_agent,  \* self._agent_id_to_agent, as (agent_id, index) pairs
  object_counter,     \* self._object_counter
  renderer,           \* self._renderer: depth rendering on, created for self.model
  returned,           \* what the last call returned: Some(value) or None
  last,               \* the last call: operation, arguments, what it saw, error
  events,             \* what the last call did, in order
  added,              \* names generated by the add_object calls since the last remove_all_objects
  nops                \* calls made so far

vars == << pc, attrs, agents, enable_physics, seed, spec, model, data, body_id, camera_id,
           body_fresh, cam_fresh, action_space, agent_id_to_agent, object_counter,
           renderer, returned, last, events, added, nops >>

\* The simulator object of the current state.
Self ==
  [attrs |-> attrs, agents |-> agents, enable_physics |-> enable_physics, seed |-> seed,
   spec |-> spec, model |-> model, data |-> data, body_id |-> body_id,
   camera_id |-> camera_id, body_fresh |-> body_fresh, cam_fresh |-> cam_fresh,
   action_space |-> action_space, agent_id_to_agent |-> agent_id_to_agent,
   object_counter |-> object_counter, renderer |-> renderer, events |-> <<>>,
   err |-> "none"]

\* The simulator object of the next state.
SelfNext ==
  [attrs |-> attrs', agents |-> agents', enable_physics |-> enable_physics', seed |-> seed',
   spec |-> spec', model |-> model', data |-> data', body_id |-> body_id',
   camera_id |-> camera_id', body_fresh |-> body_fresh', cam_fresh |-> cam_fresh',
   action_space |-> action_space', agent_id_to_agent |-> agent_id_to_agent',
   object_counter |-> object_counter', renderer |-> renderer', events |-> events',
   err |-> "none"]

Is(r) ==
  /\ attrs = r.attrs /\ agents = r.agents /\ enable_physics = r.enable_physics
  /\ seed = r.seed /\ spec = r.spec /\ model = r.model /\ data = r.data
  /\ body_id = r.body_id /\ camera_id = r.camera_id /\ body_fresh = r.body_fresh
  /\ cam_fresh = r.cam_fresh /\ action_space = r.action_space
  /\ agent_id_to_agent = r.agent_id_to_agent /\ object_counter = r.object_counter
  /\ renderer = r.renderer /\ events = r.events

Commit(r) ==
  /\ attrs' = r.attrs /\ agents' = r.agents /\ enable_physics' = r.enable_physics
  /\ seed' = r.seed /\ spec' = r.spec /\ model' = r.model /\ data' = r.data
  /\ body_id' = r.body_id /\ camera_id' = r.camera_id /\ body_fresh' = r.body_fresh
  /\ cam_fresh' = r.cam_fresh /\ action_space' = r.action_space
  /\ agent_id_to_agent' = r.agent_id_to_agent /\ object_counter' = r.object_counter
  /\ renderer' = r.renderer /\ events' = r.events

\* The record of a call: the operation, its arguments, what it saw (add_object:
\* the engine's contact reports and the direction drawn; remove_all_objects: the
\* number of objects before), the error raised, the orientation before the call
\* of the agent an action addresses (the identity when there is none), and
\* whether the call is a turn_right that directly follows a successful
\* turn_left of the same agent by the same angle.
Call(op, args, saw, err, pre_quat, undoes) ==
  [op |-> op, args |-> args, saw |-> saw, err |-> err, pre_quat |-> pre_quat,
   undoes |-> undoes]

\* ------------------------------------------------------------ the inputs
Seeds == {0, 42}
Resolution == <<64, 64>>

\* Agents a caller may build.
AgentPool ==
  { SingleSensorAgent("agent_0", "sensor_0", "rgbd", Resolution),
    SingleSensorAgent("agent_1", "sensor_1", "semantic", Resolution),
    MultiSensorAgent("agent_2", << <<"rgb_a", "rgbd">>, <<"rgb_b", "rgbd">> >>),
    MuJoCoAgent("agent_3", DefaultPosition, "body_3", << Sensor("depth_3", "depth", Resolution) >>),
    MuJoCoAgent("agent_4", DefaultPosition, "body_4", <<>>) }

\* The non-empty agent lists given to the constructor.
AgentLists == {<<a>> : a \in AgentPool} \cup {<<a, b>> : a, b \in AgentPool}

\* The simulators the operations are explored on.
Configs ==
  { [agents |-> << SingleSensorAgent("agent_0", "sensor_0", "rgbd", Resolution) >>,
     seed |-> 42, enable_physics |-> TRUE],
    [agents |-> << MultiSensorAgent("agent_2", << <<"rgb_a", "rgbd">>, <<"sem_b", "semantic">> >>) >>,
     seed |-> 42, enable_physics |-> FALSE],
    [agents |-> << MuJoCoAgent("agent_3", DefaultPosition, "body_3",
                               << Sensor("depth_3", "depth", Resolution) >>),
                   MuJoCoAgent("agent_4", Vec(2, 15, 0), "body_4", <<>>) >>,
     seed |-> 0, enable_physics |-> TRUE] }

Distances == {1}
YawAngles == {90, 270}
PitchAngles == {180}
ObjectNames == {"cube", "cube_1"}
ObjectPositions == {Vec(0, 15, -2)}
\* Leading contact reports of the engine during collision avoidance.
Contacts == {0, 1, max_attempts}
Directions == {Vec(1, 0, 0)}

\* The actions a caller may address to agent a, whose sensors are sids.
ActionsOf(a, sids) ==
  {[Action("move_forward", a) EXCEPT !.distance = d] : d \in Distances}
    \cup {[Action(k, a) EXCEPT !.rotation_degrees = t] :
            k \in {"turn_left", "turn_right", "set_yaw"}, t \in YawAngles}
    \cup {[Action(k, a) EXCEPT !.rotation_degrees = t] :
            k \in {"look_up", "look_down", "set_agent_pitch"}, t \in PitchAngles}
    \cup {[Action("set_agent_pose", a) EXCEPT !.position = Some(Vec(1, 15, 0))],
          [Action("set_agent_pose", a) EXCEPT !.rotation = Some(YawQuat(90))],
          [Action("set_agent_pose", a) EXCEPT !.position = Some(Vec(1, 15, 0)),
                                              !.rotation = Some(<<Zero, Zero, Zero>>)]}
    \cup {[Action("move_tangentially", a) EXCEPT !.distance = d] : d \in Distances}
    \cup {Action("orient_horizontal", a), Action("orient_vertical", a), Action("jump", a)}
    \* an action of a class of the caller's that names itself move_forward
    \cup {[Action("custom", a) EXCEPT !.name = "move_forward", !.distance = d] : d \in Distances}
    \cup {[Action("set_sensor_pose", a) EXCEPT !.sensor_id = Some(s),
                                               !.position = Some(Vec(0, 0, 1))] :
            s \in sids \cup {"nosensor"}}
    \cup {[Action("set_sensor_rotation", a) EXCEPT !.sensor_id = Some(s),
                                                   !.rotation = Some(PitchQuat(180))] :
            s \in sids}
    \cup {[Action("set_sensor_pitch", a) EXCEPT !.sensor_id = Some(s),
                                                !.rotation_degrees = t] :
            s \in sids, t \in PitchAngles}

\* The actions a caller may pass to apply_action: to each agent, and to no agent.
Actions ==
  UNION {ActionsOf(agents[i].agent_id,
                   {agents[i].sensors[j].sensor_id : j \in 1..Len(agents[i].sensors)}) :
           i \in 1..Len(agents)}
    \cup {[Action("move_forward", "nobody") EXCEPT !.distance = d] : d \in Distances}

\* ----------------------------------------------------------- construction
\* MuJoCoSimulator(agents, seed=..., enable_physics=...) on a fresh object.
Construct ==
  /\ pc = "new"
  /\ \E ags \in AgentLists, sd \in Seeds, phys \in BOOLEAN :
       \E s \in {init(Self, ags, sd, phys)} :
           /\ Commit(s)
           /\ pc' = IF s.err = "none" THEN "ready" ELSE "raised"
           /\ last' = Call("__init__", <<ags, sd, phys>>, <<>>, s.err, IdentityQuat, FALSE)
  /\ returned' = None
  /\ added' = added
  /\ nops' = nops + 1

NoCall == Call("none", <<>>, <<>>, "none", IdentityQuat, FALSE)

InitCtor ==
  /\ pc = "new"
  /\ Is(NewObject(<<>>))
  /\ returned = None /\ last = NoCall /\ added = <<>> /\ nops = 0

NextCtor == Construct

\* The constructor, from a fresh object.
SpecCtor == InitCtor /\ [][NextCtor]_vars

\* -------------------------------------------------------------- operations
\* The simulators of Configs as __init__ builds them once enable_physics is
\* bound when _setup_basic_scene reads it.
Init ==
  /\ pc = "ready"
  /\ \E c \in Configs :
       \E s \in {init([NewObject(<<>>) EXCEPT !.attrs = {"enable_physics"},
                                              !.enable_physics = c.enable_physics],
                      c.agents, c.seed, c.enable_physics)} :
         Is(s) /\ s.err = "none"
  /\ returned = None /\ last = NoCall /\ added = <<>> /\ nops = 0

\* The orientation of the agent an action addresses, if it has a resolved body.
PreQuat(self, action) ==
  LET agent == get_agent(self, action.agent_id)
  IN  IF IsNone(agent) \/ IsNone(self.body_id[The(agent)]) \/ IsNone(self.data)
        THEN IdentityQuat
        ELSE xquat(self, The(self.body_id[The(agent)]))

\* Whether `call` is a successful apply_action of an action of this kind.
Did(call, kind) ==
  call.op = "apply_action" /\ call.err = "none" /\ call.args[1].kind = kind

\* Whether `action` is a turn_right directly after a successful turn_left of the
\* same agent by the same angle.
Undoes(action) ==
  /\ action.kind = "turn_right"
  /\ Did(last, "turn_left")
  /\ last.args[1].agent_id = action.agent_id
  /\ last.args[1].rotation_degrees = action.rotation_degrees

Ready == pc = "ready" /\ nops < MaxOps

ApplyAction ==
  /\ Ready
  /\ \E action \in Actions :
       \E r \in {apply_action(Self, action)} :
           /\ Commit(r[1])
           /\ returned' = r[2]
           /\ last' = Call("apply_action", <<action>>, <<>>, r[1].err, PreQuat(Self, action),
                           Undoes(action))
  /\ added' = added
  /\ nops' = nops + 1
  /\ pc' = pc

GetObservations ==
  /\ Ready
  /\ \E r \in {get_observations(Self)} :
         /\ Commit(r[1])
         /\ returned' = r[2]
         /\ last' = Call("get_observations", <<>>, <<>>, r[1].err, IdentityQuat, FALSE)
  /\ added' = added
  /\ nops' = nops + 1
  /\ pc' = pc

GetStates ==
  /\ Ready
  /\ Commit(Self)
  /\ returned' = Some(get_states(Self))
  /\ last' = Call("get_states", <<>>, <<>>, "none", IdentityQuat, FALSE)
  /\ added' = added
  /\ nops' = nops + 1
  /\ pc' = pc

AddObject ==
  /\ Ready
  /\ \E name \in ObjectNames, position \in ObjectPositions, avoid \in BOOLEAN,
        contacts \in Contacts, direction \in Directions :
       /\ (avoid /\ enable_physics) \/ (contacts = 0 /\ direction = Vec(1, 0, 0))
       /\ \E s \in {add_object(Self, name, position, avoid, contacts, direction)} :
              /\ Commit(s)
              /\ last' = Call("add_object", <<name, position, avoid>>,
                              <<contacts, direction>>, s.err, IdentityQuat, FALSE)
              /\ added' = IF s.err = "none"
                             THEN Append(added, s.spec.bodies[Len(s.spec.bodies)].name)
                             ELSE added
  /\ returned' = None
  /\ nops' = nops + 1
  /\ pc' = pc

RemoveAllObjects ==
  /\ Ready
  /\ \E s \in {remove_all_objects(Self)} :
         /\ Commit(s)
         /\ last' = Call("remove_all_objects", <<>>, <<get_num_objects(Self)>>, s.err,
                         IdentityQuat, FALSE)
         /\ added' = IF s.err = "none" THEN <<>> ELSE added
  /\ returned' = None
  /\ nops' = nops + 1
  /\ pc' = pc

Reset ==
  /\ Ready
  /\ \E r \in {reset(Self)} :
         /\ Commit(r[1])
         /\ returned' = r[2]
         /\ last' = Call("reset", <<>>, <<>>, r[1].err, IdentityQuat, FALSE)
  /\ added' = added
  /\ nops' = nops + 1
  /\ pc' = pc

\* What may leave the block of "with simulator:": nothing, an exception of the
\* caller's code, or the error of the last call.
Leaving == {"none", "RuntimeError", last.err}

\* The with statement leaves its block.
Exit ==
  /\ Ready
  /\ \E exc_type \in Leaving :
       \E s \in {exit(Self, exc_type)} :
         /\ Commit(s)
         /\ last' = Call("__exit__", <<exc_type>>, <<"_renderer" \in attrs>>, s.err,
                         IdentityQuat, FALSE)
  /\ returned' = None
  /\ added' = added
  /\ nops' = nops + 1
  /\ pc' = "closed"

Next ==
  \/ ApplyAction
  \/ GetObservations
  \/ GetStates
  \/ AddObject
  \/ RemoveAllObjects
  \/ Reset
  \/ Exit

Spec == Init /\ [][Next]_vars

\* ------------------------------------------------- process_observation alone
\* Images: the value at row i, column j, channel k.
Patterns == {"black", "ramp", "clear"}
Pixel(pattern, i, j, k) ==
  CASE pattern = "black" -> 0
    [] pattern = "ramp" -> 40 * i + 20 * j + k
    [] OTHER -> IF k = 4 THEN 0 ELSE 200
Image(h, w, c, dtype, pattern) ==
  Array(<<h, w, c>>, dtype,
        [p \in (1..h) \X (1..w) |-> [k \in 1..c |-> Pixel(pattern, p[1], p[2], k)]])
Images ==
  {Image(h, w, c, dtype, pattern) :
     h \in 1..MaxSide, w \in 1..MaxSide, c \in {3, 4}, dtype \in {"uint8", "float32"},
     pattern \in Patterns}
DepthOf(img) ==
  Array(<<img.shape[1], img.shape[2]>>, "float32",
        [p \in {<<i>> : i \in 1..img.shape[1]} |-> [j \in 1..img.shape[2] |-> 1]])
\* What a caller may pass: the renderer's dict, with or without depth, or an array.
RawObservations ==
  {DictSet(EmptyDict, "rgb", img) : img \in Images}
    \cup {DictSet(DictSet(EmptyDict, "rgb", img), "depth", DepthOf(img)) : img \in Images}
    \cup Images

InitProcess ==
  /\ pc = "pure"
  /\ Is(NewObject(<<>>))
  /\ \E raw_obs \in RawObservations :
       last = Call("process_observation", <<raw_obs>>, <<>>, "none", IdentityQuat, FALSE)
  /\ returned = None /\ added = <<>> /\ nops = 0

ProcessObservation ==
  /\ pc = "pure" /\ nops = 0
  /\ returned' = Some(rgbd_process_observation(last.args[1]))
  /\ nops' = nops + 1
  /\ UNCHANGED << pc, attrs, agents, enable_physics, seed, spec, model, data, body_id,
                  camera_id, body_fresh, cam_fresh, action_space, agent_id_to_agent,
                  object_counter, renderer, last, events, added >>

NextProcess == ProcessObservation

\* RGBDSensorConfig.process_observation on the observations of RawObservations.
SpecProcess == InitProcess /\ [][NextProcess]_vars

\* ----------------------------------------------------- the actuator alone
\* The actuator is a mixin over a host that gives get_agent, model and data
\* (MuJoCoActuatorRequirements).  Agents and sensors are built with
\* _body_id = None and _camera_id = None and keep them until initialize: the
\* agents bs and the sensors cs (pairs <<agent, sensor>>) of a host are in that
\* state.
Uninitialized(self, bs, cs) ==
  [self EXCEPT
     !.body_id = [i \in DOMAIN @ |-> IF i \in bs THEN None ELSE @[i]],
     !.camera_id = [i \in DOMAIN @ |->
                      [j \in DOMAIN @[i] |-> IF <<i, j>> \in cs THEN None ELSE @[i][j]]]]

\* The actions given to the actuator: those of the operations and the sensor
\* actions that carry no sensor_id.
ActuatorActions ==
  Actions
    \cup {[Action(k, agents[i].agent_id) EXCEPT !.position = Some(Vec(0, 0, 1)),
                                                !.rotation = Some(PitchQuat(180)),
                                                !.rotation_degrees = t] :
            k \in SensorKinds, i \in 1..Len(agents), t \in PitchAngles}

InitActuate ==
  /\ pc = "ready"
  /\ \E c \in Configs :
       \E s \in {init([NewObject(<<>>) EXCEPT !.attrs = {"enable_physics"},
                                              !.enable_physics = c.enable_physics],
                      c.agents, c.seed, c.enable_physics)} :
         \E bs \in SUBSET (1..Len(c.agents)) :
           \E cs \in SUBSET {<<i, j>> \in (1..2) \X (1..2) :
                               i <= Len(c.agents) /\ j <= Len(c.agents[i].sensors)} :
             Is(Uninitialized(s, bs, cs))
  /\ returned = None /\ last = NoCall /\ added = <<>> /\ nops = 0

\* One actuate_* method called through the isinstance chain of apply_action.
Actuate ==
  /\ Ready
  /\ \E action \in ActuatorActions :
       \E s \in {dispatch(Self, action)} :
           /\ Commit(s)
           /\ last' = Call("actuate", <<action>>, <<>>, s.err, PreQuat(Self, action), FALSE)
  /\ returned' = None
  /\ added' = added
  /\ nops' = nops + 1
  /\ pc' = pc

NextActuate == Actuate

SpecActuate == InitActuate /\ [][NextActuate]_vars

\* ------------------------------------------------- names changed by the caller
\* The agents and their sensors are the caller's objects: body_name and
\* sensor_id are plain attributes (agents.py 41-58, sensors.py 32-47), read
\* again at every initialize.  A caller has given agent i another body_name
\* (j = 0) or its sensor j another sensor_id since the scene was set up.
Renamed(self, i, j) ==
  IF j = 0 THEN [self EXCEPT !.agents[i].body_name = "renamed_body"]
  ELSE [self EXCEPT !.agents[i].sensors[j].sensor_id = "renamed_camera"]

InitRenamed ==
  /\ pc = "ready"
  /\ \E c \in Configs :
       \E s \in {init([NewObject(<<>>) EXCEPT !.attrs = {"enable_physics"},
                                              !.enable_physics = c.enable_physics],
                      c.agents, c.seed, c.enable_physics)} :
         \E i \in 1..Len(c.agents) : \E j \in 0..Len(c.agents[i].sensors) :
           Is(Renamed(s, i, j))
  /\ returned = None /\ last = NoCall /\ added = <<>> /\ nops = 0

NextRenamed ==
  \/ AddObject
  \/ RemoveAllObjects

SpecRenamed == InitRenamed /\ [][NextRenamed]_vars

\* ------------------------------------------- agents with default arguments
\* Agents built with the default arguments of MuJoCoAgent and SingleSensorAgent
\* (position, rotation, body_name, sensor_type, resolution); agent_id and
\* sensor_id have no default.
DefaultAgentIds == {"agent_0", "agent_1", "agent_2", "agent_3"}
DefaultAgents ==
  {MuJoCoAgent(a, DefaultPosition, DefaultBodyName, <<>>) : a \in DefaultAgentIds}
    \cup {SingleSensorAgent(a, a \o "_sensor", "rgbd", Resolution) : a \in DefaultAgentIds}

\* Lists of two such agents with distinct agent ids.
DefaultAgentLists == {<<a, b>> : a, b \in DefaultAgents} \ {l \in {<<a, b>> : a, b \in DefaultAgents} : l[1].agent_id = l[2].agent_id}

\* A fresh object on which enable_physics is bound before __init__ reads it.
InitDefaults ==
  /\ pc = "new"
  /\ \E phys \in BOOLEAN :
       Is([NewObject(<<>>) EXCEPT !.attrs = {"enable_physics"}, !.enable_physics = phys])
  /\ returned = None /\ last = NoCall /\ added = <<>> /\ nops = 0

\* MuJoCoSimulator(agents, seed=..., enable_physics=...) with two default agents.
ConstructDefaults ==
  /\ pc = "new"
  /\ \E ags \in DefaultAgentLists, sd \in Seeds :
       \E s \in {init(Self, ags, sd, enable_physics)} :
           /\ Commit(s)
           /\ pc' = IF s.err = "none" THEN "ready" ELSE "raised"
           /\ last' = Call("__init__", <<ags, sd, enable_physics>>, <<>>, s.err,
                           IdentityQuat, FALSE)
  /\ returned' = None
  /\ added' = added
  /\ nops' = nops + 1

NextDefaults == ConstructDefaults

SpecDefaults == InitDefaults /\ [][NextDefaults]_vars

\* ------------------------------------------------------------ properties
\* The body of the agent an action addresses.
BodyOf(self, action) == The(self.body_id[The(get_agent(self, action.agent_id))])
\* Whether the action addresses a known agent with a resolved body handle.
Resolved(self, action) ==
  /\ ~IsNone(get_agent(self, action.agent_id))
  /\ ~IsNone(self.body_id[The(get_agent(self, action.agent_id))])
Bodies == DOMAIN The(data).xpos

\* C1: apply_action with an action whose qualified name is not in the action
\* space raises ValueError and leaves every body pose (data) and every camera
\* offset (model) as it was, whatever calls came before.
C1_InvalidNameRejected ==
  [][(last'.op = "apply_action" /\ action_name(last'.args[1]) \notin get_action_space(Self))
       => (last'.err = "ValueError" /\ data' = data /\ model' = model)]_vars

\* A rejected set_yaw on an agent that an earlier call had turned.
C1_Witness ==
  /\ last.op = "apply_action" /\ last.err = "ValueError"
  /\ last.args[1].kind = "set_yaw"
  /\ Resolved(Self, last.args[1])
  /\ xquat(Self, BodyOf(Self, last.args[1])) = YawQuat(90)

\* C2: once the constructor has run it has completed: no error, the scene is
\* compiled (model and data bound) and every agent's body handle and every
\* sensor's camera handle is resolved.
C2_ConstructionCompletes ==
  pc # "new" =>
    /\ pc = "ready" /\ last.err = "none"
    /\ ~IsNone(model) /\ ~IsNone(data)
    /\ \A i \in 1..Len(agents) :
         /\ ~IsNone(body_id[i])
         /\ \A j \in 1..Len(agents[i].sensors) : ~IsNone(camera_id[i][j])

\* One agent carrying one RGBD sensor of resolution (64, 64).
OneRGBDSensor ==
  /\ Len(agents) = 1 /\ Len(agents[1].sensors) = 1
  /\ agents[1].sensors[1].sensor_type = "rgbd"
  /\ agents[1].sensors[1].resolution = <<64, 64>>

\* C3: on a simulator with one agent carrying one RGBD sensor of resolution
\* (64, 64), get_observations returns a record with the agent's id, under it
\* the sensor's id, and under that a "color" buffer of shape (64, 64, 4).
C3_ColorBufferOfSensorResolution ==
  (last.op = "get_observations" /\ last.err = "none" /\ OneRGBDSensor) =>
    LET a == agents[1].agent_id
        sid == agents[1].sensors[1].sensor_id
        obs == The(returned)
    IN  /\ a \in DOMAIN obs
        /\ sid \in DOMAIN obs[a]
        /\ "color" \in DOMAIN obs[a][sid]
        /\ obs[a][sid]["color"].shape = <<64, 64, 4>>

\* C4: after N successful add_object calls since the last remove_all_objects
\* (or since construction), get_num_objects() is N and the N generated names
\* are pairwise distinct.
C4_ObjectsCounted ==
  pc = "ready" => (get_num_objects(Self) = Len(added) /\ Distinct(added))

\* Two objects added under the same base name.
C4_Witness ==
  /\ last.op = "add_object" /\ last.err = "none"
  /\ added = <<"cube_0", "cube_1">>

\* C5: remove_all_objects returns normally; afterwards get_num_objects() is 0,
\* the action space is the one from before the call, and every agent is still
\* registered with a body handle resolved in the current model.
C5_RemoveAllKeepsAgents ==
  [][last'.op = "remove_all_objects" =>
       /\ last'.err = "none"
       /\ get_num_objects(SelfNext) = 0
       /\ get_action_space(SelfNext) = get_action_space(Self)
       /\ agents' = agents /\ agent_id_to_agent' = agent_id_to_agent
       /\ \A i \in 1..Len(agents) : ~IsNone(body_id'[i]) /\ body_fresh'[i]]_vars

\* remove_all_objects on a scene that held two objects.
C5_Witness ==
  /\ last.op = "remove_all_objects" /\ last.err = "none"
  /\ last.saw = <<2>>
  /\ get_num_objects(Self) = 0

\* The conjugate of a unit quaternion, and the vector v turned by q: q v q*.
QuatConj(q) == <<q[1], RNeg(q[2]), RNeg(q[3]), RNeg(q[4])>>
Rotated(q, v) ==
  LET r == mju_mulQuat(mju_mulQuat(q, <<Zero, v[1], v[2], v[3]>>), QuatConj(q))
  IN  <<r[2], r[3], r[4]>>

C8_SetYawOverwrites ==
  (last.op = "apply_action" /\ last.args[1].kind = "set_yaw" /\ Resolved(Self, last.args[1]))
    => xquat(Self, BodyOf(Self, last.args[1])) = YawQuat(last.args[1].rotation_degrees)

\* The colour buffer of a raw observation.
ColorOf(raw_obs) == IF IsDict(raw_obs) THEN raw_obs["rgb"] ELSE raw_obs

C10_HandlesCurrent ==
  pc = "ready" =>
    /\ ~IsNone(model)
    /\ \A i \in 1..Len(agents) :
         /\ body_fresh[i] /\ ~IsNone(body_id[i])
         /\ The(model).body_names[The(body_id[i])] = agents[i].body_name
         /\ \A j \in 1..Len(agents[i].sensors) :
              /\ cam_fresh[i][j] /\ ~IsNone(camera_id[i][j])
              /\ The(model).cam_names[The(camera_id[i][j]) + 1] = agents[i].sensors[j].sensor_id

\* An object was added, then all objects were removed: two recompilations.
C10_Witness ==
  /\ last.op = "remove_all_objects" /\ last.err = "none" /\ last.saw = <<1>>
  /\ Len(agents) = 2
  /\ Len(The(model).body_names) = 2

\* The action classes the isinstance chain of apply_action has a rule for.
Rules ==
  {"move_forward", "turn_left", "turn_right", "look_up", "look_down", "set_agent_pose",
   "set_sensor_pose", "set_sensor_rotation", "move_tangentially", "orient_horizontal",
   "orient_vertical", "set_yaw", "set_agent_pitch", "set_sensor_pitch"}

\* C11: apply_action with an action whose qualified name is in the action space
\* but whose class has no rule in the dispatcher raises TypeError, changes no
\* body pose (data) and no camera offset (model), enters no rule, and neither
\* steps nor renders nor returns an observation.
C11_UnsupportedKindRejected ==
  [][(/\ last'.op = "apply_action"
      /\ action_name(last'.args[1]) \in get_action_space(Self)
      /\ last'.args[1].kind \notin Rules)
       => (/\ last'.err = "TypeError"
           /\ data' = data /\ model' = model
           /\ events' = <<>> /\ returned' = None)]_vars

\* An action of a foreign class named move_forward, refused on an agent that an
\* earlier call had turned.
C11_Witness ==
  /\ last.op = "apply_action" /\ last.err = "TypeError"
  /\ last.args[1].kind = "custom" /\ last.args[1].name = "move_forward"
  /\ xquat(Self, BodyOf(Self, last.args[1])) = YawQuat(90)

\* C12: every call of apply_action with an accepted action (its qualified name
\* is in the action space and its class has a rule) enters exactly one rule,
\* the one of the action's class, before anything else, then steps the engine
\* once, then renders, and returns one observation set.
C12_MutationThenObservation ==
  [][(/\ last'.op = "apply_action"
      /\ action_name(last'.args[1]) \in get_action_space(Self)
      /\ last'.args[1].kind \in Rules)
       => (/\ Len(events') >= 2
           /\ events'[1] = "actuate_" \o last'.args[1].kind
           /\ events'[2] = "mj_step"
           /\ \A i \in 3..Len(events') : events'[i] = "render"
           /\ ~IsNone(returned'))]_vars

\* C13: add_object with the avoidance flag on a simulator with physics enabled
\* returns normally after at most 100 contact checks: one more than the checks
\* that found a contact, or 100 when all of them did; the object is then where
\* the last move put it (where it was added when no check found a contact),
\* and get_num_objects() has grown by one.
C13_AvoidanceTerminates ==
  [][(last'.op = "add_object" /\ last'.args[3] /\ enable_physics) =>
       LET contacts == last'.saw[1]
           direction == last'.saw[2]
           start_position == last'.args[2]
           obj == Len(The(model').body_names)
           moves == IF contacts < max_attempts THEN contacts ELSE max_attempts
       IN  /\ last'.err = "none"
           /\ Len(events') <= 100
           /\ Len(events') = ChecksMade(contacts)
           /\ \A i \in 1..Len(events') : events'[i] = "mj_step"
           /\ xpos(SelfNext, obj) =
                IF moves = 0 THEN start_position
                ELSE VAdd(start_position, VScale(R(step_size * (moves - 1)), direction))
           /\ get_num_objects(SelfNext) = get_num_objects(Self) + 1]_vars

\* An add_object whose 100 checks all found a contact.
C13_Witness ==
  /\ last.op = "add_object" /\ last.err = "none" /\ last.args[3]
  /\ last.saw[1] = max_attempts
  /\ Len(events) = 100
  /\ xpos(Self, Len(The(model).body_names)) # last.args[2]

\* C14: when the with statement has left the simulator's block, normally or
\* with an exception, close has run: the renderer, the compiled model and the
\* data are no longer held, and the exception that left the block, if any, is
\* the one the caller gets.
C14_ReleasedOnExit ==
  pc = "closed" =>
    /\ last.op = "__exit__"
    /\ attrs \cap {"_renderer", "model", "data"} = {}
    /\ IsNone(model) /\ IsNone(data)
    /\ last.err = last.args[1]

\* The block was left with an exception after a renderer had been created.
C14_Witness ==
  /\ pc = "closed"
  /\ last.args[1] = "RuntimeError" /\ last.saw = <<TRUE>>
  /\ "_renderer" \notin attrs

\* C15: at every moment after construction, whatever operations were called,
\* get_action_space() is the union over the agents of the agent's declared
\* actions and, for an agent with sensors, the sensor actions, each qualified
\* as "{agent_id}.{kind}".
C15_ActionSpaceIsUnionOfAgents ==
  get_action_space(Self) =
    UNION { {Qualified(agents[i].agent_id, k) :
               k \in AgentKinds \cup (IF agents[i].sensors = <<>> THEN {} ELSE SensorKinds)} :
            i \in 1..Len(agents) }

\* A simulator of two agents, one of them without sensors, after three calls
\* that added an object and ended with a reset.
C15_Witness ==
  /\ Len(agents) = 2
  /\ "agent_3.set_sensor_pitch" \in get_action_space(Self)
  /\ "agent_4.move_forward" \in get_action_space(Self)
  /\ "agent_4.set_sensor_pitch" \notin get_action_space(Self)
  /\ added # <<>> /\ last.op = "reset" /\ last.err = "none" /\ nops = 3

\* The action's target cannot be resolved: the addressed agent's body handle is
\* None (agent actions), or the action has no sensor_id or no sensor of the
\* agent has that id and a resolved camera handle (sensor actions).
C16_Unresolvable(self, action) ==
  LET agent == get_agent(self, action.agent_id)
      i == The(agent)
  IN  /\ ~IsNone(agent)
      /\ IF action.kind \in SensorKinds
           THEN \/ IsNone(action.sensor_id)
                \/ ~\E j \in 1..Len(self.agents[i].sensors) :
                       /\ self.agents[i].sensors[j].sensor_id = The(action.sensor_id)
                       /\ ~IsNone(self.camera_id[i][j])
           ELSE action.kind \in Rules /\ IsNone(self.body_id[i])

\* C16: an actuation whose target cannot be resolved raises no error and leaves
\* the positions and orientations of all bodies (data) and the camera offsets
\* (model) as they were.
C16_UnresolvedIsNoOp ==
  [][(last'.op = "actuate" /\ C16_Unresolvable(Self, last'.args[1]))
       => /\ last'.err = "none"
          /\ data' = data
          /\ model' = model]_vars

\* The third actuation of a host with an unresolved body handle is a
\* set_sensor_pitch whose sensor_id names a sensor without a camera handle.
C16_Witness ==
  /\ last.op = "actuate" /\ last.err = "none"
  /\ C16_Unresolvable(Self, last.args[1])
  /\ last.args[1].kind = "set_sensor_pitch"
  /\ ~IsNone(last.args[1].sensor_id)
  /\ \E i \in 1..Len(agents) : IsNone(body_id[i])
  /\ nops = 3

\* The quaternion of Euler angles, for the angles the inputs carry (all zero).
C17_EulerQuat(euler) == IF euler = <<Zero, Zero, Zero>> THEN IdentityQuat ELSE <<>>

\* C17: apply_action of a set_agent_pose with a rotation, on an agent with a
\* resolved body, ends without error, and afterwards the agent's orientation is
\* the rotation itself when it has 4 components and the quaternion of the
\* Euler angles when it has 3.
C17_PoseRotationByCount ==
  [][(/\ last'.op = "apply_action"
      /\ last'.args[1].kind = "set_agent_pose"
      /\ action_name(last'.args[1]) \in get_action_space(Self)
      /\ ~IsNone(last'.args[1].rotation)
      /\ Resolved(Self, last'.args[1]))
       => LET rotation == The(last'.args[1].rotation)
              b == BodyOf(Self, last'.args[1])
          IN  /\ last'.err = "none"
              /\ Len(rotation) = 4 => xquat(SelfNext, b) = rotation
              /\ Len(rotation) = 3 => xquat(SelfNext, b) = C17_EulerQuat(rotation)]_vars

\* C18: in the observations that get_observations() returned, the record of
\* every semantic sensor with a resolved camera handle has the key "semantic",
\* an array of element type int32.
C18_SemanticKeyDelivered ==
  (last.op = "get_observations" /\ last.err = "none") =>
    \A i \in 1..Len(agents) : \A j \in 1..Len(agents[i].sensors) :
      (agents[i].sensors[j].sensor_type = "semantic" /\ ~IsNone(camera_id[i][j]))
        => LET record == The(returned)[agents[i].agent_id][agents[i].sensors[j].sensor_id]
           IN  /\ "semantic" \in DOMAIN record
               /\ record["semantic"].dtype = "int32"

\* Some agent's body name or some sensor's camera name is not in the compiled
\* model.
C19_NameMissing(self) ==
  \E i \in 1..Len(self.agents) :
    \/ self.agents[i].body_name \notin SeqToSet(The(self.model).body_names)
    \/ \E j \in 1..Len(self.agents[i].sensors) :
         self.agents[i].sensors[j].sensor_id \notin SeqToSet(The(self.model).cam_names)

\* C19: an add_object or remove_all_objects after whose compilation a body or
\* camera name is missing from the model raises the error of the resolution
\* and is aborted (the object is not counted); one that ends without error has
\* resolved every agent's and every sensor's handle against the new model.
C19_ResolutionFailureIsFatal ==
  [][(last'.op \in {"add_object", "remove_all_objects"} /\ model' # model)
       => /\ C19_NameMissing(SelfNext)
               => /\ last'.err \in {"KeyError", "RuntimeError"}
                  /\ object_counter' = object_counter
          /\ last'.err = "none"
               => \A i \in 1..Len(agents') :
                    /\ body_fresh'[i] /\ ~IsNone(body_id'[i])
                    /\ The(model').body_names[The(body_id'[i])] = agents'[i].body_name
                    /\ \A j \in 1..Len(agents'[i].sensors) :
                         /\ cam_fresh'[i][j] /\ ~IsNone(camera_id'[i][j])
                         /\ The(model').cam_names[The(camera_id'[i][j]) + 1]
                              = agents'[i].sensors[j].sensor_id]_vars

\* An add_object on a simulator of two agents raised KeyError for the first
\* agent's body.
C19_Witness ==
  /\ last.op = "add_object" /\ last.err = "KeyError"
  /\ Len(agents) = 2 /\ agents[1].body_name = "renamed_body"
  /\ Len(The(model).body_names) = 3
  /\ get_num_objects(Self) = 0

\* The objects in the scene: the bodies of the compiled model that are not an
\* agent's body.
C20_ObjectBodies(self) ==
  SeqToSet(The(self.model).body_names)
    \ {self.agents[i].body_name : i \in 1..Len(self.agents)}

\* C20: apply_action, get_observations, get_states and reset leave the objects
\* of the scene and get_num_objects() as they are; whenever a call of the
\* simulator takes an object out of the scene, the call is remove_all_objects,
\* no object is left and the count is 0.
C20_ObjectsStayUntilRemoveAll ==
  [][/\ last'.op \in {"apply_action", "get_observations", "get_states", "reset"}
          => /\ C20_ObjectBodies(SelfNext) = C20_ObjectBodies(Self)
             /\ get_num_objects(SelfNext) = get_num_objects(Self)
     /\ (last'.op # "__exit__" /\ ~(C20_ObjectBodies(Self) \subseteq C20_ObjectBodies(SelfNext)))
          => /\ last'.op = "remove_all_objects"
             /\ C20_ObjectBodies(SelfNext) = {}
             /\ get_num_objects(SelfNext) = 0]_vars

\* Two objects were added and the simulator was then reset: both are bodies of
\* the model and counted.
C20_Witness ==
  /\ last.op = "reset" /\ last.err = "none"
  /\ Len(added) = 2
  /\ SeqToSet(added) \subseteq C20_ObjectBodies(Self)
  /\ get_num_objects(Self) = 2

\* C21: in the observations returned by get_observations or apply_action, the
\* colour channel "rgba" of every RGBD sensor with a resolved camera is an
\* array of three axes whose last axis has 4 entries.
C21_ColorAlwaysFourChannel ==
  (last.op \in {"get_observations", "apply_action"} /\ last.err = "none") =>
    \A i \in 1..Len(agents) : \A j \in 1..Len(agents[i].sensors) :
      (agents[i].sensors[j].sensor_type = "rgbd" /\ ~IsNone(camera_id[i][j]))
        => LET record == The(returned)[agents[i].agent_id][agents[i].sensors[j].sensor_id]
           IN  /\ "rgba" \in DOMAIN record
               /\ Len(record["rgba"].shape) = 3
               /\ record["rgba"].shape[3] = 4

\* C22: orient_horizontal on an agent with a resolved body ends without error
\* and leaves a rotation about the vertical axis Y, the axis of set_yaw and of
\* the turns (no X and no Z component in the quaternion); when the orientation
\* before was such a rotation, it is unchanged.
C22_OrientHorizontalKeepsYaw ==
  [][(/\ last'.op = "actuate"
      /\ last'.args[1].kind = "orient_horizontal"
      /\ Resolved(Self, last'.args[1]))
       => LET b == BodyOf(Self, last'.args[1])
              before == xquat(Self, b)
              after == xquat(SelfNext, b)
          IN  /\ last'.err = "none"
              /\ after[2] = Zero /\ after[4] = Zero
              /\ (before[2] = Zero /\ before[4] = Zero) => after = before]_vars

\* C23: for every agent with at least one sensor and every action kind the
\* isinstance chain of apply_action has a branch for, the qualified name
\* "{agent_id}.{kind}" is in get_action_space().
C23_EveryRuleInActionSpace ==
  \A i \in 1..Len(agents) :
    agents[i].sensors # <<>>
      => \A kind \in Rules : Qualified(agents[i].agent_id, kind) \in get_action_space(Self)

\* C24: when a call of get_observations (alone, or within apply_action or
\* reset) has rendered, the renderer it used was created for the model compiled
\* last.
C24_RendererOfCurrentModel ==
  (/\ last.op \in {"get_observations", "apply_action", "reset"}
   /\ last.err = "none"
   /\ \E k \in 1..Len(events) : events[k] = "render")
    => "_renderer" \in attrs /\ renderer.fresh

\* C25, for the first two contact checks: when add_object avoids collisions
\* and the first check finds a contact of the new object and the second finds
\* none, the object was moved in between, so the second check (after which it
\* stays where it is) did not test the position where it was added.
C25_ContactMovesObject ==
  [][(/\ last'.op = "add_object" /\ last'.args[3] /\ enable_physics
      /\ last'.err = "none"
      /\ last'.saw[1] = 1)
       => xpos(SelfNext, Len(The(model').body_names)) # last'.args[2]]_vars

\* C26: a simulator constructed from two agents with distinct agent ids and
\* default arguments is ready for use, and the two agents hold resolved,
\* different body handles.
C26_DefaultAgentsOwnBodies ==
  last.op = "__init__" =>
    /\ last.err = "none" /\ pc = "ready"
    /\ ~IsNone(body_id[1]) /\ ~IsNone(body_id[2])
    /\ body_id[1] # body_id[2]

=============================================================================
